---------------------------- MODULE Spec2Model ----------------------------
(***************************************************************************)
(* Model of the defense-cooperation chatbot: the response diversity        *)
(* manager, the template selector and the retry loop of                    *)
(* src/src/llama_integration.py, the exact-answer lookup of                *)
(* src/src/prompt_engineering.py and the chat front end of                 *)
(* src/src/chatbot.py.                                                     *)
(*                                                                         *)
(* Texts.  A Python str is a finite sequence of tokens; a token stands     *)
(* for a run of characters (a morpheme) and is written in ASCII, e.g.      *)
(* "indo" for 인도, "indo","nesia" for 인도네시아.  `x in s` of Python is     *)
(* containment of a contiguous sub-sequence, str.lower() maps the tokens   *)
(* that hold upper-case letters, and difflib.SequenceMatcher.ratio() is    *)
(* computed by the Ratcliff/Obershelp recursion over the tokens.           *)
(* Python's None is the value None.  Floats that are compared with the     *)
(* similarity threshold are kept as exact fractions <<num, den>>.          *)
(***************************************************************************)
EXTENDS Integers, Sequences, FiniteSets, TLC

\* Python's None, kept apart from every string
None == <<"<None>">>

\* ------------------------------------------------------------------ bounds
\* number of operations of one run of the front-end specification
MaxCalls == 2
\* number of calls on a directly constructed DefenseCooperationLlama
MaxLlamaCalls == 2
\* number of generate_response calls of one run of the diversity specification
MaxDivCalls == 3
\* number of add_response calls of one run of the history specification
MaxHistCalls == 12
\* number of generate_response calls among them
MaxHistGenerates == 1
\* words per query of the specification of the pure functions
MaxWords == 3

\* ------------------------------------------------------- program constants
max_history == 10
max_attempts == 3
\* similarity_threshold = 0.65, kept as the fraction 65/100
similarity_threshold == <<65, 100>>
\* the history window check_similarity and get_diversity_metrics look at
recent_window == 5
\* top_k of retrieve_relevant_chunks
top_k == 3

\* ------------------------------------------------------------------- texts
Min(a, b) == IF a <= b THEN a ELSE b

Max(a, b) == IF a >= b THEN a ELSE b

\* str.lower() on one token
LowerToken(t) ==
    CASE t = "UAE" -> "uae"
      [] t = "AI" -> "ai"
      [] t = "BrahMos" -> "brahmos"
      [] t = "DRDO" -> "drdo"
      [] t = "Template" -> "template"
      [] OTHER -> t

\* str.lower()
Lower(s) == [i \in DOMAIN s |-> LowerToken(s[i])]

\* Python's `kw in text` on strings
Contains(text, kw) ==
    \E i \in 1..(Len(text) - Len(kw) + 1) : SubSeq(text, i, i + Len(kw) - 1) = kw

\* the last n elements of a list: s[-n:]
LastN(s, n) == SubSeq(s, Max(1, Len(s) - n + 1), Len(s))

\* len() of one token in characters: the two fixed notices of the model
\* wrapper are 15 and 14 characters long, a blank is one character, the
\* token "out#half" is 10 characters long, every other token stands for a
\* run of 20 characters
TokenLen(t) ==
    CASE t = "cannot generate a response" -> 15
      [] t = "response generation failed" -> 14
      [] t = " " -> 1
      [] t = "out#half" -> 10
      [] OTHER -> 20

\* len(text) in characters
RECURSIVE CharLen(_)
CharLen(text) == IF Len(text) = 0 THEN 0 ELSE TokenLen(Head(text)) + CharLen(Tail(text))

\* str.strip(): leading and trailing blanks removed
RECURSIVE Strip(_)
Strip(text) ==
    IF Len(text) = 0 THEN text
    ELSE IF Head(text) = " " THEN Strip(Tail(text))
    ELSE IF text[Len(text)] = " " THEN Strip(SubSeq(text, 1, Len(text) - 1))
    ELSE text

\* text[:n] in characters: the tokens that lie within the first n characters
RECURSIVE Prefix(_, _)
Prefix(text, n) ==
    IF Len(text) = 0 \/ TokenLen(Head(text)) > n THEN <<>>
    ELSE <<Head(text)>> \o Prefix(Tail(text), n - TokenLen(Head(text)))

\* length of the common run of a and b that starts at a[i], b[j]
RECURSIVE RunLen(_, _, _, _)
RunLen(a, b, i, j) ==
    IF i > Len(a) \/ j > Len(b) THEN 0
    ELSE IF a[i] # b[j] THEN 0
    ELSE 1 + RunLen(a, b, i + 1, j + 1)

\* SequenceMatcher.find_longest_match: the longest common block, the one
\* that starts earliest in a and, among those, earliest in b
LongestMatch(a, b) ==
    LET runs == {<<i, j, RunLen(a, b, i, j)>> : i \in 1..Len(a), j \in 1..Len(b)}
        kmax == CHOOSE k \in {r[3] : r \in runs} : \A r \in runs : r[3] <= k
        best == {r \in runs : r[3] = kmax}
        imin == CHOOSE i \in {r[1] : r \in best} : \A r \in best : i <= r[1]
        jmin == CHOOSE j \in {r[2] : r \in {x \in best : x[1] = imin}} :
                    \A r \in {x \in best : x[1] = imin} : j <= r[2]
    IN  <<imin, jmin, kmax>>

\* SequenceMatcher.get_matching_blocks: total size of the matching blocks
RECURSIVE MatchingSize(_, _)
MatchingSize(a, b) ==
    IF Len(a) = 0 \/ Len(b) = 0 THEN 0
    ELSE LET m == LongestMatch(a, b)
         IN  IF m[3] = 0 THEN 0
             ELSE m[3]
                  + MatchingSize(SubSeq(a, 1, m[1] - 1), SubSeq(b, 1, m[2] - 1))
                  + MatchingSize(SubSeq(a, m[1] + m[3], Len(a)),
                                 SubSeq(b, m[2] + m[3], Len(b)))

RECURSIVE GCD(_, _)
GCD(a, b) == IF b = 0 THEN a ELSE GCD(b, a % b)

\* the fraction n/d in lowest terms (d > 0): one value per float
Frac(n, d) == LET g == GCD(n, d) IN <<n \div g, d \div g>>

\* SequenceMatcher(None, a, b).ratio() = 2.0 * matches / (len(a) + len(b)),
\* 1.0 when both are empty
Ratio(a, b) ==
    IF Len(a) + Len(b) = 0 THEN <<1, 1>>
    ELSE Frac(2 * MatchingSize(a, b), Len(a) + Len(b))

\* x > y on fractions
FracGT(x, y) == x[1] * y[2] > y[1] * x[2]

\* max(x, y) on fractions
FracMax(x, y) == IF FracGT(y, x) THEN y ELSE x

FracAdd(x, y) == Frac(x[1] * y[2] + y[1] * x[2], x[2] * y[2])

FracSub(x, y) == Frac(x[1] * y[2] - y[1] * x[2], x[2] * y[2])

Zero == <<0, 1>>

One == <<1, 1>>


\* ----------------------------------------------------------------- queries
\* "인도와의 미사일 기술 협력 전략은?"
QIndia == <<"indo", "waui", "misail", "gisul", "hyeopryeok", "jeollyageun", "?">>

\* "오늘 날씨는 어떤가요?"
QWeather == <<"oneul", "nalssineun", "eotteongayo", "?">>

\* "아프리카 평화유지 장비 수출"
QAfrica == <<"africa", "pyeonghwayuji", "jangbi", "suchul">>

\* ""
QEmpty == <<>>

\* the query strings the operations are called with
Queries == {QIndia, QWeather, QAfrica, QEmpty}

\* the arguments a caller can pass: a string, or None
Inputs == Queries \cup {None}

\* ---------------------------------------------------------- template corpus
\* EnhancedResponseGenerator._create_variation_phrases()["conclusion_phrases"]
AllConclusions ==
    <<"*[AI consultant]*", "*[defense expert]*", "*[economy analyst]*",
      "*[technology expert]*", "*[investment expert]*", "*[policy expert]*">>

\* the phrases random.choice(conclusion_phrases) is drawn from here: the
\* first two of the list
conclusion_phrases == {AllConclusions[1], AllConclusions[2]}

\* _create_variation_phrases()["analysis_headers"]
analysis_headers ==
    {"### core analysis", "### deep analysis", "### strategy analysis",
     "### status review", "### market analysis", "### global view",
     "### technology analysis", "### innovation view", "### cooperation chance"}

\* the one header _diversify_headers looks for: "### 📊 핵심 분석"
old_header == "### core analysis"

\* EnhancedResponseGenerator._create_comprehensive_templates: category ->
\* list of templates.  Every template ends with its own "*[...]*" signature;
\* the words kept from the body are the two markers of the India scenario
\* (현무 "hyunmoo", "BrahMos") and some terms of _extract_keywords.
response_templates ==
    [indo_misail |->
       << <<"brahmos#1", "hyunmoo", "BrahMos", "misail", "brahmos#2", "*[DRDO data]*">>,
          <<"akash#1", "cheongung", "bangong", "indo", "akash#2", "*[air defense]*">>,
          <<"makeinindia#1", "indo", "gisul", "ijeon", "makeinindia#2", "*[make in india]*">>,
          <<"quad#1", "indo", "hyeopryeok", "quad#2", "*[quad]*">>,
          <<"drdo#1", "BrahMos", "indo", "drdo#2", "*[DRDO approved]*">> >>,
     UAE_tuja |->
       << <<"desert#1", "UAE", "jungdong", "desert#2", "*[EDGE data]*">>,
          <<"edge#1", "UAE", "misail", "edge#2", "*[EDGE plan]*">>,
          <<"tawazun#1", "UAE", "gisul", "ijeon", "tawazun#2", "*[Tawazun]*">>,
          <<"gcc#1", "gcc#2", "gcc#3", "*[GCC]*">>,
          <<"smartcity#1", "AI", "smartcity#2", "*[smart city]*">> >>,
     brazil_hanggong |->
       << <<"embraer#1", "brazil", "hanggong", "embraer#2", "*[Embraer]*">>,
          <<"amazon#1", "brazil", "AI", "amazon#2", "*[Amazon]*">>,
          <<"kftrainer#1", "hanggong", "kftrainer#2", "*[aviation]*">>,
          <<"patrol#1", "radar", "patrol#2", "*[patrol]*">> >>,
     dongnama_hyeopryeok |->
       << <<"asean#1", "hyeopryeok", "asean#2", "*[ASEAN]*">>,
          <<"tropical#1", "tropical#2", "tropical#3", "*[tropical]*">>,
          <<"seamaritime#1", "dong", "nama", "seamaritime#2", "*[ASEAN forum]*">>,
          <<"seatransfer#1", "gisul", "ijeon", "seatransfer#2", "*[ASEAN policy]*">> >>,
     jungdong_bukafrica |->
       << <<"mena#1", "jungdong", "africa", "mena#2", "*[Arab League]*">>,
          <<"islamic#1", "jungdong", "islamic#2", "*[OIC]*">>,
          <<"mediation#1", "jungdong", "mediation#2", "*[peace study]*">>,
          <<"energy#1", "hyeopryeok", "energy#2", "*[energy]*">> >>,
     africa |->
       << <<"sahub#1", "africa", "tuja", "sahub#2", "*[South Africa MoU]*">>,
          <<"peacekeeping#1", "africa", "hyeopryeok", "peacekeeping#2", "*[AU]*">>,
          <<"resource#1", "africa", "drone", "resource#2", "*[AfDB]*">> >>,
     dongyureop |->
       << <<"poland#1", "gisul", "ijeon", "poland#2", "*[Poland]*">>,
          <<"nato#1", "hanggong", "nato#2", "*[NATO]*">> >>,
     gisurijeon |->
       << <<"ip#1", "gisul", "ijeon", "ip#2", "*[OECD cases]*">>,
          <<"staged#1", "gisul", "ijeon", "staged#2", "*[OECD guide]*">> >>,
     haeyanganbo |->
       << <<"maritime#1", "haegun", "maritime#2", "*[IMO]*">>,
          <<"indopacific#1", "indo", "indopacific#2", "*[CSIS]*">> >>,
     cyberboan |->
       << <<"cyberai#1", "cyber", "AI", "cyberai#2", "*[CISA]*">> >>,
     ujuhanggong |->
       << <<"satellite#1", "radar", "satellite#2", "*[NASA ESA]*">> >>]

\* the keys of response_templates
TemplateKeys == DOMAIN response_templates

\* the tokens the pattern \*\[.*?\]\*$ matches at the end of a text
Signatures ==
    UNION {{response_templates[k][i][Len(response_templates[k][i])] :
                    i \in 1..Len(response_templates[k])} : k \in TemplateKeys}
    \cup {AllConclusions[i] : i \in 1..Len(AllConclusions)}

\* EnhancedResponseGenerator._classify_query_for_template; query.lower()
\* raises AttributeError on None
_classify_query_for_template(query) ==
    LET query_lower == Lower(query)
        has(kw) == Contains(query_lower, kw)
    IN  IF has(<<"indo">>) /\ (has(<<"misail">>) \/ has(<<"hyeopryeok">>))
          THEN "indo_misail"
        ELSE IF has(<<"uae">>) \/ has(<<"arab", "emirates">>) THEN "UAE_tuja"
        ELSE IF has(<<"brazil">>) THEN "brazil_hanggong"
        ELSE IF \E c \in {<<"indo", "nesia">>, <<"thailand">>, <<"malaysia">>,
                          <<"dong", "nama">>} : has(c)
          THEN "dongnama_hyeopryeok"
        ELSE IF \E c \in {<<"egypt">>, <<"jungdong">>, <<"buk", "africa">>} : has(c)
          THEN "jungdong_bukafrica"
        ELSE IF has(<<"africa">>) THEN "africa"
        ELSE "indo_misail"

\* str.replace(old_header, new_header, 1) on a text that holds old_header
ReplaceFirst(text, old, new) ==
    LET i == CHOOSE k \in 1..Len(text) : text[k] = old /\ \A j \in 1..(k - 1) : text[j] # old
    IN  [text EXCEPT ![i] = new]

\* EnhancedResponseGenerator._diversify_headers with its two random choices
\* made: new_header and conclusion
_diversify_headers(template, new_header, conclusion) ==
    LET t1 == IF Contains(template, <<old_header>>)
                THEN ReplaceFirst(template, old_header, new_header)
                ELSE template
    IN  IF Len(t1) > 0 /\ t1[Len(t1)] \in Signatures
          THEN [t1 EXCEPT ![Len(t1)] = conclusion]
          ELSE t1

\* the identifier f"{template_key}_{i}" of used_templates
TemplateId(template_key, i) == <<template_key, i>>

\* EnhancedResponseGenerator.get_diverse_response: the set of texts the
\* random choices can return for a query string (indices are 0-based in the
\* code, the template at position i + 1 here has index i)
get_diverse_response(query, used_templates) ==
    LET template_key == _classify_query_for_template(query)
        available_templates ==
            IF template_key \in TemplateKeys /\ Len(response_templates[template_key]) > 0
              THEN response_templates[template_key]
              ELSE response_templates["indo_misail"]
        unused == {i \in 1..Len(available_templates) :
                     \A u \in 1..Len(used_templates) :
                        used_templates[u] # TemplateId(template_key, i - 1)}
        pool == IF unused # {} THEN unused ELSE 1..Len(available_templates)
    IN  {_diversify_headers(available_templates[i], h, c) :
            i \in pool, h \in analysis_headers, c \in conclusion_phrases}


\* ------------------------------------------------ ResponseDiversityManager
\* defense_terms of ResponseDiversityManager._extract_keywords, in list order
defense_terms ==
    << <<"misail">>, <<"bangong">>, <<"hanggong">>, <<"haegun">>, <<"hyeopryeok">>,
       <<"tuja">>, <<"suchul">>, <<"gisul", "ijeon">>, <<"muin">>, <<"drone">>,
       <<"radar">>, <<"cyber">>, <<"AI">>, <<"gaebal">>, <<"indo">>, <<"UAE">>,
       <<"brazil">>, <<"dong", "nama">>, <<"jungdong">>, <<"africa">> >>

\* ResponseDiversityManager._extract_keywords
_extract_keywords(text) ==
    LET hit(term) == Contains(text, term) IN SelectSeq(defense_terms, hit)

\* ResponseDiversityManager.add_response on the history list; now is the
\* value time.time() returns
add_response_unbounded(history, query, response, now) ==
    Append(history, [query |-> query, response |-> response, timestamp |-> now,
                     keywords |-> _extract_keywords(response)])

add_response(history, query, response, now) ==
    LET appended == Append(history, [query |-> query, response |-> response,
                                     timestamp |-> now,
                                     keywords |-> _extract_keywords(response)])
    IN  IF Len(appended) > max_history THEN Tail(appended) ELSE appended

\* the loop of check_similarity over the window, from its i-th record on
RECURSIVE CheckFrom(_, _, _, _)
CheckFrom(window, new_response, i, max_similarity) ==
    IF i > Len(window)
      THEN [is_similar |-> FALSE, similarity |-> max_similarity]
      ELSE LET similarity == Ratio(new_response, window[i].response)
           IN  IF FracGT(similarity, similarity_threshold)
                 THEN [is_similar |-> TRUE, similarity |-> similarity]
                 ELSE CheckFrom(window, new_response, i + 1,
                                FracMax(max_similarity, similarity))

\* ResponseDiversityManager.check_similarity
check_similarity_last_only(history, new_response) ==
    IF Len(history) = 0
      THEN [is_similar |-> FALSE, similarity |-> Zero]
      ELSE CheckFrom(LastN(history, 1), new_response, 1, Zero)

check_similarity(history, new_response) ==
    IF Len(history) = 0
      THEN [is_similar |-> FALSE, similarity |-> Zero]
      ELSE CheckFrom(LastN(history, recent_window), new_response, 1, Zero)

\* sum of the fractions of a sequence
RECURSIVE FracSum(_)
FracSum(fs) == IF Len(fs) = 0 THEN Zero ELSE FracAdd(Head(fs), FracSum(Tail(fs)))

\* the pairs i < j of get_diversity_metrics, in loop order
RECURSIVE PairsFrom(_, _, _)
PairsFrom(n, i, j) ==
    IF i > n THEN <<>>
    ELSE IF j > n THEN PairsFrom(n, i + 1, i + 2)
    ELSE <<<<i, j>>>> \o PairsFrom(n, i, j + 1)

\* ResponseDiversityManager.get_diversity_metrics: the dict it returns, as
\* a record with the set of its keys
get_diversity_metrics(history, rejected) ==
    IF Len(history) < 2
      THEN [keys |-> {"diversity_score", "avg_similarity"},
            diversity_score |-> One, avg_similarity |-> Zero,
            total_responses |-> 0, rejected_count |-> 0]
      ELSE LET responses == LastN(history, recent_window)
               pairs == PairsFrom(Len(responses), 1, 2)
               similarities == [p \in DOMAIN pairs |->
                                   Ratio(responses[pairs[p][1]].response,
                                         responses[pairs[p][2]].response)]
               total == FracSum(similarities)
               avg_similarity == IF Len(similarities) > 0
                                   THEN Frac(total[1], total[2] * Len(similarities))
                                   ELSE Zero
           IN  [keys |-> {"diversity_score", "avg_similarity", "total_responses",
                          "rejected_count"},
                diversity_score |-> FracSub(One, avg_similarity),
                avg_similarity |-> avg_similarity,
                total_responses |-> Len(history),
                rejected_count |-> Len(rejected)]


\* ------------------------------------------------------------ SimpleRAGSystem
\* SimpleRAGSystem._create_document_chunks over the three country profiles
\* of build_knowledge_base: the keyword lists of the chunks, in list order
document_chunks ==
    << << <<"indo">>, <<"gukbangyesan">>, <<"byeongnyeok">> >>,
       << <<"indo">>, <<"hyeopryeok">>, <<"gihoe">> >>,
       << <<"UAE">>, <<"gukbangyesan">>, <<"byeongnyeok">> >>,
       << <<"UAE">>, <<"hyeopryeok">>, <<"gihoe">> >>,
       << <<"brazil">>, <<"gukbangyesan">>, <<"byeongnyeok">> >>,
       << <<"brazil">>, <<"hyeopryeok">>, <<"gihoe">> >> >>

\* SimpleRAGSystem.retrieve_relevant_chunks: the number of chunks returned
\* (the chunks with a positive score, cut to top_k)
retrieve_relevant_chunks(query) ==
    LET query_lower == Lower(query)
        score(c) == Cardinality({k \in 1..Len(document_chunks[c]) :
                                   Contains(query_lower, Lower(document_chunks[c][k]))})
    IN  Min(top_k, Cardinality({c \in 1..Len(document_chunks) : score(c) > 0}))

\* -------------------------------------------------------- LlamaPromptEngineer
\* LlamaPromptEngineer._build_pdf_qa_database, in insertion order.  The answer
\* registered for the India/missile entry is character for character the
\* first template of response_templates["인도_미사일"].
pdf_qa_database ==
    << [key |-> "jungdong_priority",
        keywords |-> << <<"jungdong">>, <<"buk", "africa">>, <<"useon", "sunwi">>,
                        <<"sunwi">> >>,
        response |-> <<"pdf:mena#1", "UAE", "egypt", "pdf:mena#2">>],
       [key |-> "namasia_priority",
        keywords |-> << <<"nama", "sia">>, <<"dong", "nama", "sia">>,
                        <<"useon", "sunwi">>, <<"indo">> >>,
        response |-> <<"pdf:asia#1", "indo", "indo", "nesia", "pdf:asia#2">>],
       [key |-> "indo_misail_hyeopryeok",
        keywords |-> << <<"indo">>, <<"misail">>, <<"hyeopryeok">>, <<"BrahMos">>,
                        <<"hyunmoo">> >>,
        response |-> response_templates["indo_misail"][1]],
       [key |-> "UAE_tuja",
        keywords |-> << <<"UAE">>, <<"tuja">>, <<"gyumo">>, <<"arab", "emirates">> >>,
        response |-> <<"pdf:uae#1", "UAE", "tuja", "pdf:uae#2">>] >>

\* the loop of find_pdf_answer from the i-th entry on: the first entry with
\* match_score >= len(keywords) * 0.5 wins
RECURSIVE FindPdfFrom(_, _)
FindPdfFrom(query_lower, i) ==
    IF i > Len(pdf_qa_database) THEN None
    ELSE LET keywords == pdf_qa_database[i].keywords
             match_score == Cardinality({k \in 1..Len(keywords) :
                                           Contains(query_lower, keywords[k])})
         IN  IF 2 * match_score >= Len(keywords)
               THEN pdf_qa_database[i].response
               ELSE FindPdfFrom(query_lower, i + 1)

\* LlamaPromptEngineer.find_pdf_answer
find_pdf_answer(user_query) == FindPdfFrom(Lower(user_query), 1)

\* diversity_instructions[attempt % 5] of generate_diversified_prompt
diversity_instruction(attempt) ==
    <<"instr:accurate", "instr:figures", "instr:steps", "instr:geopolitics",
      "instr:balance">>[(attempt % 5) + 1]

\* LlamaPromptEngineer.generate_diversified_prompt: the registered answer
\* when the lookup finds one, the assembled prompt otherwise
generate_diversified_prompt(user_query, attempt) ==
    LET pdf_answer == find_pdf_answer(user_query)
    IN  IF pdf_answer # None /\ Len(pdf_answer) > 0 THEN pdf_answer
        ELSE <<"## background", "## user question">> \o user_query
             \o <<diversity_instruction(attempt), "## request">>

\* defense_keywords of LlamaPromptEngineer.is_defense_related, in list order
defense_keywords ==
    << <<"bangsan">>, <<"misail">>, <<"bangeo">>, <<"gunsa">>, <<"mugi">>,
       <<"hyeopryeok">>, <<"suchul">>, <<"tuja">>, <<"indo">>, <<"UAE">>,
       <<"brazil">>, <<"jungdong">>, <<"dong", "nama">>, <<"africa">>,
       <<"gisul", "ijeon">>, <<"cyber">>, <<"uju">>, <<"hanggong">>,
       <<"haeyang">>, <<"AI">>, <<"drone">>, <<"radar">>, <<"bangong">> >>

\* LlamaPromptEngineer.is_defense_related: any of defense_keywords occurs in
\* the lower-cased query; "UAE" and "AI" are compared as written
is_defense_related(query) ==
    LET query_lower == Lower(query)
    IN  \E k \in 1..Len(defense_keywords) : Contains(query_lower, defense_keywords[k])


\* ------------------------------------------------------------------- state
VARIABLES
    \* DefenseCooperationChatbot
    is_initialized,        \* self.is_initialized
    llama_system,          \* self.llama_system: "none", "stub" (the class of the
                           \* import fallback, without generate_response) or "llama"
    conversation_count,    \* self.conversation_count
    chat_history,          \* self.response_history of the chatbot
    \* DefenseCooperationLlama and its ResponseDiversityManager
    model,                 \* self.model: "none", "dummy" ("dummy_model") or "real"
    prompt_engineer,       \* self.prompt_engineer: "none" or "engineer"
    response_history,      \* diversity_manager.response_history
    rejected_responses,    \* diversity_manager.rejected_responses
    used_templates,        \* self.used_templates
    conversation_history,  \* self.conversation_history of DefenseCooperationLlama
    drew_from,             \* who had last written the state of the random module
                           \* when this object last called random.choice
    \* a second DefenseCooperationLlama of the same process
    other,
    \* the process-wide state of the random module: who wrote it last ("os":
    \* the seed taken from the system when the module was imported)
    random_state,
    \* ImprovedDefenseBot
    bot_initialized,       \* self.is_initialized of the bot
    response_cache,        \* self.response_cache: cache_key -> response
    \* two callers inside generate_response of the one DefenseCooperationLlama
    threads,               \* per caller: position, query, attempt, candidate
    accepted,              \* history: the candidates that passed the test
                           \* `not is_similar or attempt == max_attempts - 1`,
                           \* in the order they passed it
    \* environment and bookkeeping
    clock,                 \* the next value of time.time() / datetime.now()
    calls,                 \* number of operations called so far
    result,                \* what the last operation returned or raised
    final_accepts,         \* history: timestamps of the records accepted on the
                           \* last attempt (attempt == max_attempts - 1)
    inserted               \* history: every record add_response appended, in order

vars == <<is_initialized, llama_system, conversation_count, chat_history, model,
          prompt_engineer, response_history, rejected_responses, used_templates,
          conversation_history, drew_from, other, random_state, bot_initialized,
          response_cache, threads, accepted, clock, calls, result, final_accepts,
          inserted>>

chatbot_vars == <<is_initialized, llama_system, conversation_count, chat_history>>

llama_vars == <<model, prompt_engineer, response_history, rejected_responses,
                used_templates, conversation_history, drew_from, final_accepts,
                inserted>>

bot_vars == <<bot_initialized, response_cache>>

thread_vars == <<threads, accepted>>

\* ----------------------------------------------------------- return values
\* the metrics dict of a result that has none
NoMetrics ==
    [keys |-> {}, diversity_score |-> Zero, avg_similarity |-> Zero,
     total_responses |-> 0, rejected_count |-> 0]

\* A returned value: kind is "str" (text holds it), "dict" (keys names the
\* entries present; info_keys those of result["model_info"]), "none" (the
\* operation returns None) or "raise" (exc is the exception that escaped).
Blank ==
    [op |-> "", kind |-> "none", text |-> <<>>, exc |-> "", keys |-> {},
     info_keys |-> {}, query |-> <<>>, response |-> <<>>, error |-> FALSE,
     mode |-> "", attempts |-> 0, diversity_info |-> NoMetrics, rag_chunks |-> 0,
     response_length |-> 0, in_scope |-> FALSE, conversation_count |-> 0,
     total_conversations |-> 0, is_similar |-> FALSE, similarity |-> Zero]

\* str(e) of the AttributeError that None.lower() / None.generate_prompt raise
NoneTypeError == "'NoneType' object has no attribute"

\* str(e) of the AttributeError raised by a call of generate_response on the
\* DefenseCooperationLlama class of the import fallback
StubAttributeError == "'DefenseCooperationLlama' object has no attribute"

\* the messages of the exceptions the program can raise internally
ExceptionMessages == {NoneTypeError, StubAttributeError}

\* "향상된 응답 생성 중 오류가 발생했습니다.\n\n"
enhanced_error_notice == "enhanced response generation error"

\* ------------------------------------------------- DefenseCooperationLlama
\* the texts a loaded model can decode to; the first two differ in one
\* token, the third is exactly 50 characters long
model_outputs ==
    {<<"out#1", "out#2", "out#3", "out#4">>, <<"out#1", "out#2", "out#3", "out#5">>,
     <<"out#6", "out#7", "out#half">>}

\* "응답을 생성할 수 없습니다." (empty decode) and "응답 생성에 실패했습니다."
no_response_text == <<"cannot generate a response">>

failed_response_text == <<"response generation failed">>

\* "일반적인 질문", the query of the fallback of a failing model
general_question == <<"ilbanjeogin", "jilmun">>

\* DefenseCooperationLlama._generate_real_response_with_penalties: the texts
\* it can return (decoded output, one of the two fixed notices, or a template
\* when the model raises)
_generate_real_response_with_penalties ==
    model_outputs \cup {no_response_text, failed_response_text}
    \cup get_diverse_response(general_question, <<>>)

\* random.choice on the process-wide generator: the object reads the state
\* whoever wrote it last and leaves its own
Drawn(L) == [L EXCEPT !.drew_from = L.random_state, !.random_state = L.name]

\* random.seed(seed) of TrueIntelligentGenerator.generate_response followed
\* by its random choices: the state is overwritten, then read and advanced
Seeded(L) == [L EXCEPT !.drew_from = L.name, !.random_state = L.name]

\* the object after one candidate was produced: get_diverse_response (dummy
\* mode, or the fallback of a raising model) calls random.choice
AfterCandidate(L, response) ==
    IF L.model \in {"dummy", "none"}
         \/ response \in get_diverse_response(general_question, <<>>)
      THEN Drawn(L)
      ELSE L

\* the candidates of one attempt of generate_response and its mode tag
Candidates(L, user_query) ==
    IF L.model \in {"dummy", "none"}
      THEN get_diverse_response(user_query, L.used_templates)
      ELSE _generate_real_response_with_penalties

\* mode = "enhanced_dummy" in the template branch, "real_enhanced" otherwise
ModeOf_none_only(L) == IF L.model = "none" THEN "enhanced_dummy" ELSE "real_enhanced"

ModeOf(L) == IF L.model \in {"dummy", "none"} THEN "enhanced_dummy" ELSE "real_enhanced"

\* the dict generate_response returns after its loop
GenerateDict(L, user_query, response, attempt) ==
    [Blank EXCEPT
       !.op = "generate_response", !.kind = "dict",
       !.keys = {"query", "response", "generation_time", "model_info",
                 "diversity_info", "rag_chunks", "response_length"},
       !.info_keys = {"model_name", "mode", "temperature", "attempts"},
       !.query = user_query, !.response = response, !.mode = ModeOf(L),
       !.attempts = attempt + 1,
       !.diversity_info = get_diversity_metrics(L.response_history,
                                                L.rejected_responses),
       !.rag_chunks = retrieve_relevant_chunks(user_query),
       !.response_length = Len(response)]

\* the test `not is_similar or attempt == max_attempts - 1` that ends the loop
Accepted_always(chk, attempt) == TRUE

Accepted_forced_early(chk, attempt) == ~chk.is_similar \/ attempt = max_attempts - 2

Accepted(chk, attempt) == ~chk.is_similar \/ attempt = max_attempts - 1

\* the else branch of that test: the candidate goes to rejected_responses
Rejected_also_recorded(L, user_query, response, chk, attempt) ==
    [L EXCEPT !.rejected_responses =
                  Append(@, [query |-> user_query, response |-> response,
                             similarity |-> chk.similarity, attempt |-> attempt + 1]),
              !.response_history = add_response(@, user_query, response, L.clock),
              !.clock = @ + 1]

Rejected(L, user_query, response, chk, attempt) ==
    [L EXCEPT !.rejected_responses =
                  Append(@, [query |-> user_query, response |-> response,
                             similarity |-> chk.similarity, attempt |-> attempt + 1])]

\* the loop `for attempt in range(max_attempts)` of generate_response from
\* one attempt on: the set of pairs (state of the object, returned dict)
RECURSIVE AttemptLoop(_, _, _)
AttemptLoop(L, user_query, attempt) ==
    UNION {
      LET chk == check_similarity(L.response_history, response)
      IN  IF Accepted(chk, attempt)
            THEN LET L2 == [AfterCandidate(L, response) EXCEPT
                        !.response_history =
                            add_response(@, user_query, response, L.clock),
                        !.inserted =
                            Append(@, [query |-> user_query, response |-> response,
                                       timestamp |-> L.clock,
                                       keywords |-> _extract_keywords(response)]),
                        !.used_templates =
                            Append(@, TemplateId(_classify_query_for_template(user_query),
                                                 attempt)),
                        !.final_accepts =
                            IF attempt = max_attempts - 1 THEN @ \cup {L.clock} ELSE @,
                        !.clock = @ + 1]
                 IN  {[L |-> L2, ret |-> GenerateDict(L2, user_query, response, attempt)]}
            ELSE AttemptLoop(Rejected(AfterCandidate(L, response), user_query,
                                      response, chk, attempt),
                             user_query, attempt + 1)
      : response \in Candidates(L, user_query) }

\* DefenseCooperationLlama.generate_response: every (state, result) a call
\* can end in.  None as query raises in retrieve_relevant_chunks and again in
\* the handler (get_diverse_response lower-cases the query), so the exception
\* escapes; without a prompt engineer _create_enhanced_prompt raises and the
\* handler returns the error dict.
generate_response(L, user_query) ==
    IF user_query = None
      THEN {[L |-> L, ret |-> [Blank EXCEPT !.op = "generate_response",
                                            !.kind = "raise", !.exc = NoneTypeError]]}
    ELSE IF L.prompt_engineer = "none"
      THEN {[L |-> Drawn(L),
             ret |-> [Blank EXCEPT
                        !.op = "generate_response", !.kind = "dict",
                        !.keys = {"query", "response", "error", "generation_time"},
                        !.query = user_query,
                        !.response = <<enhanced_error_notice>> \o fallback_response,
                        !.error = TRUE]]
            : fallback_response \in get_diverse_response(user_query, <<>>)}
    ELSE AttemptLoop(L, user_query, 0)

\* the object state the operators above work on
LlamaState ==
    [model |-> model, prompt_engineer |-> prompt_engineer,
     response_history |-> response_history,
     rejected_responses |-> rejected_responses, used_templates |-> used_templates,
     conversation_history |-> conversation_history, drew_from |-> drew_from,
     name |-> "A", random_state |-> random_state,
     final_accepts |-> final_accepts, inserted |-> inserted, clock |-> clock]

\* the state of the object after a call
SetLlama(L) ==
    /\ model' = L.model
    /\ prompt_engineer' = L.prompt_engineer
    /\ response_history' = L.response_history
    /\ rejected_responses' = L.rejected_responses
    /\ used_templates' = L.used_templates
    /\ conversation_history' = L.conversation_history
    /\ drew_from' = L.drew_from
    /\ random_state' = L.random_state
    /\ final_accepts' = L.final_accepts
    /\ inserted' = L.inserted
    /\ clock' = L.clock


\* ------------------------------------------- operations on the llama object
\* the object right after DefenseCooperationLlama.__init__
FreshLlama ==
    /\ model = "none"
    /\ response_history = <<>>
    /\ rejected_responses = <<>>
    /\ used_templates = <<>>
    /\ conversation_history = <<>>
    /\ drew_from = "none"
    /\ final_accepts = {}
    /\ inserted = <<>>

\* a second DefenseCooperationLlama right after __init__, in dummy mode and
\* with a prompt engineer
OtherFresh ==
    [model |-> "dummy", prompt_engineer |-> "engineer", response_history |-> <<>>,
     rejected_responses |-> <<>>, used_templates |-> <<>>,
     conversation_history |-> <<>>, drew_from |-> "none", name |-> "B",
     final_accepts |-> {}, inserted |-> <<>>]

\* the two callers of the concurrent specification, and a caller that is
\* not inside generate_response: attempt, response and chk are the locals of
\* the method
Callers == {1, 2}

IdleCaller ==
    [pc |-> "idle", query |-> <<>>, attempt |-> 0, response |-> <<>>,
     is_similar |-> FALSE, similarity |-> Zero]

\* ImprovedDefenseBot.__init__: self.response_cache = {}
EmptyCache == [k \in {} |-> <<>>]

\* the process right after the imports and the constructors
FreshProcess ==
    /\ random_state = "os"
    /\ other = OtherFresh
    /\ bot_initialized = FALSE
    /\ response_cache = EmptyCache
    /\ threads = [t \in Callers |-> IdleCaller]
    /\ accepted = <<>>

\* the chatbot right after DefenseCooperationChatbot.__init__
FreshChatbot ==
    /\ is_initialized = FALSE
    /\ llama_system = "none"
    /\ conversation_count = 0
    /\ chat_history = <<>>

\* DefenseCooperationLlama.initialize_model: the model loads, or loading
\* raises and _setup_dummy_mode sets the dummy model
InitializeModel(bound) ==
    /\ calls < bound
    /\ \E m \in {"real", "dummy"} : model' = m
    /\ calls' = calls + 1
    /\ result' = [Blank EXCEPT !.op = "initialize_model"]
    /\ UNCHANGED <<chatbot_vars, prompt_engineer, response_history,
                   rejected_responses, used_templates, final_accepts, inserted, clock,
                   conversation_history, drew_from, random_state, other, thread_vars, bot_vars>>

\* DefenseCooperationLlama.generate_response(user_query), called directly
GenerateResponse(user_query, bound) ==
    /\ calls < bound
    /\ \E o \in generate_response(LlamaState, user_query) :
          /\ SetLlama(o.L)
          /\ result' = o.ret
    /\ calls' = calls + 1
    /\ UNCHANGED <<chatbot_vars, other, thread_vars, bot_vars>>

\* ResponseDiversityManager.add_response(query, response), called directly
AddResponse(query, response, bound) ==
    /\ calls < bound
    /\ response_history' = add_response(response_history, query, response, clock)
    /\ inserted' = Append(inserted, [query |-> query, response |-> response,
                                     timestamp |-> clock,
                                     keywords |-> _extract_keywords(response)])
    /\ clock' = clock + 1
    /\ calls' = calls + 1
    /\ result' = [Blank EXCEPT !.op = "add_response"]
    /\ UNCHANGED <<chatbot_vars, model, prompt_engineer, rejected_responses,
                   used_templates, final_accepts, conversation_history, drew_from,
                   random_state, other, thread_vars, bot_vars>>

\* DefenseCooperationLlama.reset_diversity_tracking
ResetDiversityTracking(bound) ==
    /\ calls < bound
    /\ response_history' = <<>>
    /\ rejected_responses' = <<>>
    /\ used_templates' = <<>>
    /\ inserted' = <<>>
    /\ final_accepts' = {}
    /\ calls' = calls + 1
    /\ result' = [Blank EXCEPT !.op = "reset_diversity_tracking"]
    /\ UNCHANGED <<chatbot_vars, model, prompt_engineer, clock,
                   conversation_history, drew_from, random_state, other, thread_vars, bot_vars>>

\* ---------------------------------------------------- llama specification
\* a DefenseCooperationLlama constructed directly, with or without a prompt
\* engineer (quick_setup.py, test.llama.py)
InitLlama ==
    /\ FreshChatbot
    /\ FreshLlama
    /\ FreshProcess
    /\ prompt_engineer \in {"engineer", "none"}
    /\ clock = 1
    /\ calls = 0
    /\ result = Blank

LlamaInputs == {QIndia, QAfrica, None}

NextLlama ==
    \/ InitializeModel(MaxLlamaCalls)
    \/ \E q \in LlamaInputs : GenerateResponse(q, MaxLlamaCalls)
    \/ ResetDiversityTracking(MaxLlamaCalls)

SpecLlama == InitLlama /\ [][NextLlama]_vars

\* ------------------------------------------------ diversity specification
\* one session of generate_response calls in dummy mode on one category
InitDiv ==
    /\ FreshChatbot
    /\ FreshLlama
    /\ FreshProcess
    /\ prompt_engineer = "engineer"
    /\ clock = 1
    /\ calls = 0
    /\ result = Blank

NextDiv == GenerateResponse(QAfrica, MaxDivCalls)

SpecDiv == InitDiv /\ [][NextDiv]_vars

\* -------------------------------------------------- history specification
\* the texts add_response is called with directly
DirectTexts == {<<"text#1", "text#2", "text#3">>}

NextHist ==
    \/ \E r \in DirectTexts : AddResponse(QAfrica, r, MaxHistCalls)
    \/ /\ Len(used_templates) < MaxHistGenerates
       /\ GenerateResponse(QAfrica, MaxHistCalls)

SpecHist == InitDiv /\ [][NextHist]_vars

\* --------------------------------------------------- dummy-mode specification
\* number of operations of one run of the dummy-mode specification
MaxQuickCalls == 2

\* DefenseCooperationLlama.get_performance_stats: the message while
\* self.conversation_history is empty, the statistics record otherwise
get_performance_stats(L) ==
    IF Len(L.conversation_history) = 0
      THEN [Blank EXCEPT !.op = "get_performance_stats", !.kind = "dict",
                         !.keys = {"message"},
                         !.text = <<"No conversation history available">>]
      ELSE [Blank EXCEPT !.op = "get_performance_stats", !.kind = "dict",
                         !.keys = {"total_conversations", "average_generation_time",
                                   "recent_conversations", "model_info",
                                   "diversity_stats"},
                         !.info_keys = {"model_name", "temperature", "quantization"},
                         !.total_conversations = Len(L.conversation_history)]

\* DefenseCooperationLlama.get_performance_stats()
GetPerformanceStats(bound) ==
    /\ calls < bound
    /\ calls' = calls + 1
    /\ result' = get_performance_stats(LlamaState)
    /\ UNCHANGED <<chatbot_vars, llama_vars, clock, random_state, other, thread_vars, bot_vars>>

\* knowledge base and prompt engineer built, DefenseCooperationLlama
\* constructed with them and _setup_dummy_mode() called
InitQuick ==
    /\ FreshChatbot
    /\ model = "dummy"
    /\ response_history = <<>>
    /\ rejected_responses = <<>>
    /\ used_templates = <<>>
    /\ conversation_history = <<>>
    /\ drew_from = "none"
    /\ final_accepts = {}
    /\ inserted = <<>>
    /\ FreshProcess
    /\ prompt_engineer = "engineer"
    /\ clock = 1
    /\ calls = 0
    /\ result = Blank

\* the queries of the session: a question on one category, and the empty string
QuickInputs == {QAfrica, QEmpty}

NextQuick ==
    \/ \E q \in QuickInputs : GenerateResponse(q, MaxQuickCalls)
    \/ GetPerformanceStats(MaxQuickCalls)

SpecQuick == InitQuick /\ [][NextQuick]_vars

\* ------------------------------------------------- similarity specification
\* number of operations of one run of the similarity specification
MaxSimCalls == 7

\* the texts of the similarity specification: the first two share three of
\* four tokens (ratio 0.75), the third shares nothing with them
SimTexts ==
    {<<"sim#1", "sim#2", "sim#3", "sim#4">>, <<"sim#1", "sim#2", "sim#3", "sim#5">>,
     <<"sim#6">>}

\* ResponseDiversityManager.check_similarity(new_response), called directly:
\* result holds the returned pair and, in response, the argument
CheckSimilarity(new_response, bound) ==
    /\ calls < bound
    /\ calls' = calls + 1
    /\ LET chk == check_similarity(response_history, new_response)
       IN  result' = [Blank EXCEPT !.op = "check_similarity", !.kind = "tuple",
                                   !.response = new_response,
                                   !.is_similar = chk.is_similar,
                                   !.similarity = chk.similarity]
    /\ UNCHANGED <<chatbot_vars, llama_vars, clock, random_state, other, thread_vars, bot_vars>>

NextSim ==
    \/ \E r \in SimTexts : AddResponse(QAfrica, r, MaxSimCalls)
    \/ \E r \in SimTexts : CheckSimilarity(r, MaxSimCalls)

SpecSim == InitDiv /\ [][NextSim]_vars

\* ------------------------------------------------- concurrent specification
\* Two callers run generate_response(user_query) on the one object, in dummy
\* mode with a prompt engineer.  The interpreter switches callers between
\* statements; list.append, list.pop, the slice response_history[-5:] and
\* len() are single steps.  Nothing in the method takes a lock.

\* number of add_response calls made before the callers start
MaxConcFill == 10

\* the caller's locals after a step
At(t, pc) == [threads EXCEPT ![t].pc = pc]

\* the caller enters generate_response: attempt = 0 of the for loop
CallerBegin(t, user_query) ==
    /\ threads[t].pc = "idle"
    /\ threads' = [threads EXCEPT ![t] = [IdleCaller EXCEPT !.pc = "candidate",
                                                            !.query = user_query]]
    /\ calls' = calls + 1
    /\ result' = [Blank EXCEPT !.op = "generate_response.begin"]
    /\ UNCHANGED <<chatbot_vars, llama_vars, clock, random_state, other, bot_vars,
                   accepted>>

\* response = self.response_generator.get_diverse_response(user_query,
\* self.used_templates)
CallerCandidate(t) ==
    /\ threads[t].pc = "candidate"
    /\ \E response \in get_diverse_response(threads[t].query, used_templates) :
          threads' = [threads EXCEPT ![t].pc = "check", ![t].response = response]
    /\ drew_from' = random_state
    /\ random_state' = "A"
    /\ UNCHANGED <<chatbot_vars, model, prompt_engineer, response_history,
                   rejected_responses, used_templates, conversation_history,
                   final_accepts, inserted, clock, calls, result, other, bot_vars,
                   accepted>>

\* is_similar, similarity_score = check_similarity(response) and the test
\* `not is_similar or attempt == max_attempts - 1`
CallerCheck(t) ==
    /\ threads[t].pc = "check"
    /\ LET chk == check_similarity(response_history, threads[t].response)
       IN  IF Accepted(chk, threads[t].attempt)
             THEN /\ threads' = [threads EXCEPT ![t].pc = "add",
                                                ![t].is_similar = chk.is_similar,
                                                ![t].similarity = chk.similarity]
                  /\ accepted' = Append(accepted,
                                        [caller |-> t,
                                         response |-> threads[t].response,
                                         attempt |-> threads[t].attempt])
             ELSE /\ threads' = [threads EXCEPT ![t].pc = "reject",
                                                ![t].is_similar = chk.is_similar,
                                                ![t].similarity = chk.similarity]
                  /\ UNCHANGED accepted
    /\ UNCHANGED <<chatbot_vars, llama_vars, clock, calls, result, random_state,
                   other, bot_vars>>

\* self.diversity_manager.rejected_responses.append({...}); next attempt
CallerReject(t) ==
    /\ threads[t].pc = "reject"
    /\ rejected_responses' =
          Append(rejected_responses,
                 [query |-> threads[t].query, response |-> threads[t].response,
                  similarity |-> threads[t].similarity,
                  attempt |-> threads[t].attempt + 1])
    /\ threads' = [threads EXCEPT ![t].pc = "candidate", ![t].attempt = @ + 1]
    /\ UNCHANGED <<chatbot_vars, model, prompt_engineer, response_history,
                   used_templates, conversation_history, drew_from, final_accepts,
                   inserted, clock, calls, result, random_state, other, bot_vars,
                   accepted>>

\* add_response, first statement: self.response_history.append({...})
CallerAppend(t) ==
    /\ threads[t].pc = "add"
    /\ LET record == [query |-> threads[t].query, response |-> threads[t].response,
                      timestamp |-> clock,
                      keywords |-> _extract_keywords(threads[t].response)]
       IN  /\ response_history' = Append(response_history, record)
           /\ inserted' = Append(inserted, record)
    /\ final_accepts' = IF threads[t].attempt = max_attempts - 1
                          THEN final_accepts \cup {clock} ELSE final_accepts
    /\ clock' = clock + 1
    /\ threads' = At(t, "evict")
    /\ UNCHANGED <<chatbot_vars, model, prompt_engineer, rejected_responses,
                   used_templates, conversation_history, drew_from, calls, result,
                   random_state, other, bot_vars, accepted>>

\* add_response, second statement: if len(self.response_history) >
\* self.max_history: self.response_history.pop(0)
CallerEvict(t) ==
    /\ threads[t].pc = "evict"
    /\ response_history' = IF Len(response_history) > max_history
                             THEN Tail(response_history) ELSE response_history
    /\ threads' = At(t, "record")
    /\ UNCHANGED <<chatbot_vars, model, prompt_engineer, rejected_responses,
                   used_templates, conversation_history, drew_from, final_accepts,
                   inserted, clock, calls, result, random_state, other, bot_vars,
                   accepted>>

\* self.used_templates.append(f"{template_key}_{attempt}"); break
CallerRecord(t) ==
    /\ threads[t].pc = "record"
    /\ used_templates' =
          Append(used_templates,
                 TemplateId(_classify_query_for_template(threads[t].query),
                            threads[t].attempt))
    /\ threads' = At(t, "return")
    /\ UNCHANGED <<chatbot_vars, model, prompt_engineer, response_history,
                   rejected_responses, conversation_history, drew_from,
                   final_accepts, inserted, clock, calls, result, random_state,
                   other, bot_vars, accepted>>

\* diversity_metrics = get_diversity_metrics(); return {...}
CallerReturn(t) ==
    /\ threads[t].pc = "return"
    /\ result' = GenerateDict(LlamaState, threads[t].query, threads[t].response,
                              threads[t].attempt)
    /\ threads' = At(t, "done")
    /\ UNCHANGED <<chatbot_vars, llama_vars, clock, calls, random_state, other,
                   bot_vars, accepted>>

\* the object after _setup_dummy_mode(), both callers outside the method
InitConc == InitQuick

\* the history is first filled by MaxConcFill direct add_response calls;
\* then the two callers enter and only they move
NextConc ==
    \/ \E r \in DirectTexts : AddResponse(QAfrica, r, MaxConcFill)
    \/ /\ calls >= MaxConcFill
       /\ \E t \in Callers : CallerBegin(t, QAfrica)
    \/ \E t \in Callers : CallerCandidate(t)
    \/ \E t \in Callers : CallerCheck(t)
    \/ \E t \in Callers : CallerReject(t)
    \/ \E t \in Callers : CallerAppend(t)
    \/ \E t \in Callers : CallerEvict(t)
    \/ \E t \in Callers : CallerRecord(t)
    \/ \E t \in Callers : CallerReturn(t)

SpecConc == InitConc /\ [][NextConc]_vars


\* -------------------------------------------------- TrueIntelligentGenerator
\* the styles random.choice(list(self.response_styles.keys())) is drawn from
\* here: the first two of the four
response_styles == {"analytical", "strategic"}

\* number of keywords of a list that occur in the lower-cased query
Hits(query_lower, keywords) ==
    Cardinality({k \in 1..Len(keywords) : Contains(query_lower, keywords[k])})

\* region_keywords of _analyze_query, in dict order: region, keywords
region_keywords ==
    << [region |-> "dongnamasia",
        keywords |-> << <<"dong", "nama">>, <<"asean">>, <<"indo", "nesia">>,
                        <<"thailand">>, <<"malaysia">>, <<"vietnam">> >>],
       [region |-> "jungdong",
        keywords |-> << <<"jungdong">>, <<"uae">>, <<"saudi">>, <<"egypt">>,
                        <<"gulf">>, <<"arab">> >>] >>

\* tech_keywords of _analyze_query, in dict order: AI_윤리, AI_미래, 일반기술
tech_keywords ==
    << [tech |-> "AI_ethics",
        keywords |-> << <<"ai">>, <<"ingongjineung">>, <<"yulli">>, <<"munje">>,
                        <<"wiheom">>, <<"chaegim">> >>],
       [tech |-> "AI_future",
        keywords |-> << <<"ai">>, <<"ingongjineung">>, <<"mirae">>, <<"jeonmang">>,
                        <<"baljeon">>, <<"byeonhwa">> >>],
       [tech |-> "general_tech",
        keywords |-> << <<"gisul">>, <<"hyeoksin">>, <<"gaebal">>, <<"yeongu">> >>] >>

\* cooperation_keywords of _analyze_query
cooperation_keywords ==
    << <<"hyeopryeok">>, <<"gongdong", "gaebal">>, <<"gisul", "ijeon">>, <<"tuja">>,
       <<"partnership">> >>

\* one hit fewer than the technology test asks for
tech_matches_one == 2 - 1

\* `if keyword_matches >= 2`
tech_matches_needed == 2

\* TrueIntelligentGenerator._analyze_query: category and sub-category.  The
\* two for loops with break pick the first entry of their table that passes
\* the test (0 when none does).
_analyze_query(query) ==
    LET query_lower == Lower(query)
        AnyHit(keywords) == Hits(query_lower, keywords) > 0
        EnoughHits(keywords) == Hits(query_lower, keywords) >= tech_matches_needed
        FirstEntry(table, Test(_)) ==
            IF \E i \in 1..Len(table) : Test(table[i].keywords)
              THEN CHOOSE i \in 1..Len(table) :
                      /\ Test(table[i].keywords)
                      /\ \A j \in 1..(i - 1) : ~Test(table[j].keywords)
              ELSE 0
        detected_region == FirstEntry(region_keywords, AnyHit)
        detected_tech == FirstEntry(tech_keywords, EnoughHits)
        cooperation_detected == Hits(query_lower, cooperation_keywords) > 0
    IN  IF detected_region # 0
          THEN [category |-> "regional",
                subcategory |-> region_keywords[detected_region].region]
        ELSE IF detected_tech # 0
          THEN [category |-> "technology",
                subcategory |-> tech_keywords[detected_tech].tech]
        ELSE IF cooperation_detected
          THEN [category |-> "cooperation", subcategory |-> "general"]
        ELSE [category |-> "general", subcategory |-> "mixed"]

\* DynamicKnowledgeBase.cooperation_models: name, feature and example of each
\* model as _generate_cooperation_response prints them; the example of the
\* first one is "한-인도 현무-BrahMos"
cooperation_models ==
    << <<"model:joint development", "hyunmoo", "BrahMos">>,
       <<"model:technology transfer", "K9", "poland">>,
       <<"model:joint venture", "UAE", "cheongung">> >>

\* "💡 **전문 분야 안내**: ...", appended to a general answer
specialty_guide == "specialty guide: ask about defense cooperation"

\* TrueIntelligentGenerator.generate_response on a string: the texts its
\* random choices (style, sampled items) can produce
IntelligentResponses(query) ==
    LET topic == _analyze_query(query)
    IN  CASE topic.category = "regional" ->
               {<<style, "region overview", topic.subcategory, "priorities",
                  "regional conclusion">> : style \in response_styles}
          [] topic.category = "technology" ->
               {<<style, "technology sections", topic.subcategory>> :
                   style \in response_styles}
          [] topic.category = "cooperation" ->
               {<<style>> \o cooperation_models[pair[1]] \o cooperation_models[pair[2]]
                  \o <<"success factors", "expected effects", "cooperation conclusion">>
                : style \in response_styles,
                  pair \in {p \in (1..3) \X (1..3) : p[1] # p[2]}}
          [] OTHER ->
               {<<"quote">> \o query
                  \o <<style, "trends", "considerations", "directions",
                       "general conclusion", "---", specialty_guide>>
                : style \in response_styles}

\* ---------------------------------------------------- DefenseCooperationChatbot
\* "❌ 시스템이 초기화되지 않았습니다." / "시스템이 초기화되지 않았습니다."
not_initialized_text == <<"system is not initialized">>

\* "죄송합니다. 응답 생성 중 오류가 발생했습니다: " of chat and
\* "상세 응답 생성 중 오류가 발생했습니다: " of detailed_chat
chat_apology == "sorry, an error occurred during response generation:"

detailed_apology == "an error occurred during detailed response generation:"

\* the test both chat and detailed_chat apply to the text of the external
\* system: non-empty, len(response.strip()) > 50, "Template" not in response
Usable(response) ==
    /\ Len(response) > 0
    /\ CharLen(Strip(response)) > 50
    /\ ~Contains(response, <<"Template">>)

\* response[:100] + "..." if len(response) > 100 else response
Shorten(response) ==
    IF CharLen(response) > 100 THEN Prefix(response, 100) \o <<"...">> ELSE response

\* DefenseCooperationChatbot.initialize: always sets is_initialized; the
\* external system is absent (knowledge base or constructor failed), the
\* fallback class of the failed import, or a fresh DefenseCooperationLlama
\* whose model loaded or fell back to dummy mode, built with the prompt
\* engineer or with None when the prompt system failed to load
Initialize ==
    /\ calls < MaxCalls
    /\ is_initialized' = TRUE
    /\ \E sys \in {"none", "stub", "llama"} :
          /\ llama_system' = sys
          /\ IF sys = "llama"
               THEN /\ model' \in {"real", "dummy"}
                    /\ prompt_engineer' \in {"engineer", "none"}
               ELSE /\ model' = "none"
                    /\ prompt_engineer' = "none"
    /\ response_history' = <<>>
    /\ rejected_responses' = <<>>
    /\ used_templates' = <<>>
    /\ conversation_history' = <<>>
    /\ drew_from' = "none"
    /\ final_accepts' = {}
    /\ inserted' = <<>>
    /\ calls' = calls + 1
    /\ result' = [Blank EXCEPT !.op = "initialize", !.kind = "bool"]
    /\ UNCHANGED <<conversation_count, chat_history, clock, random_state, other, thread_vars,
                   bot_vars>>

\* a returned str, an escaping exception
StrResult(op, text) == [Blank EXCEPT !.op = op, !.kind = "str", !.text = text]

Raised(op, exc) == [Blank EXCEPT !.op = op, !.kind = "raise", !.exc = exc]

\* TrueIntelligentGenerator.generate_response(query): a text, or the
\* AttributeError of query.lower() when the query is None
intelligent_generate(query) ==
    IF query = None
      THEN {Raised("intelligent_generate", NoneTypeError)}
      ELSE {StrResult("intelligent_generate", r) : r \in IntelligentResponses(query)}

\* self.llama_system.generate_response(user_input) as the chatbot calls it:
\* skipped when llama_system is None (kind "none"), an AttributeError on the
\* fallback class of the failed import, the call on the real object otherwise
external_call(user_input) ==
    IF llama_system = "none" THEN {[L |-> LlamaState, ret |-> Blank]}
    ELSE IF llama_system = "stub"
      THEN {[L |-> LlamaState,
             ret |-> Raised("generate_response", StubAttributeError)]}
    ELSE generate_response(LlamaState, user_input)

\* the inner try/except of chat and detailed_chat around the external call:
\* an exception is logged at debug level and leaves no response
external_guarded(user_input) ==
    {IF e.ret.kind = "raise" THEN [e EXCEPT !.ret = Blank] ELSE e :
        e \in external_call(user_input)}

\* the record chat appends to self.response_history
ChatRecord(user_input, response, now) ==
    [query |-> user_input, response |-> Shorten(response), timestamp |-> now,
     mode |-> "", length |-> CharLen(response),
     keys |-> {"query", "response", "timestamp", "length"}]

\* the record detailed_chat appends to self.response_history
DetailedRecord(user_input, ret, now) ==
    [query |-> user_input, response |-> <<>>, timestamp |-> now,
     mode |-> IF "model_info" \in ret.keys THEN ret.mode ELSE "unknown",
     length |-> IF "response_length" \in ret.keys THEN ret.response_length ELSE 0,
     keys |-> {"query", "timestamp", "mode", "length"}]

\* the body of the try block of chat: (external state, history, outcome)
chat_body(user_input) ==
    UNION {
      IF e.ret.kind = "dict" /\ Usable(e.ret.response)
        THEN {[L |-> e.L, hist |-> chat_history,
               ret |-> StrResult("chat", e.ret.response)]}
        ELSE {IF g.kind = "raise"
                THEN [L |-> Seeded(e.L), hist |-> chat_history,
                      ret |-> Raised("chat", g.exc)]
                ELSE [L |-> [Seeded(e.L) EXCEPT !.clock = @ + 1],
                      hist |-> Append(chat_history,
                                      ChatRecord(user_input, g.text, e.L.clock)),
                      ret |-> StrResult("chat", g.text)]
              : g \in intelligent_generate(user_input)}
      : e \in external_guarded(user_input) }

\* DefenseCooperationChatbot.chat: the guard on is_initialized, the try
\* block and its handler, which returns the apology followed by str(e)
chat_without_handler(user_input) ==
    IF ~is_initialized
      THEN {[L |-> LlamaState, hist |-> chat_history,
             ret |-> StrResult("chat", not_initialized_text)]}
      ELSE chat_body(user_input)

chat(user_input) ==
    IF ~is_initialized
      THEN {[L |-> LlamaState, hist |-> chat_history,
             ret |-> StrResult("chat", not_initialized_text)]}
      ELSE {IF o.ret.kind = "raise"
              THEN [o EXCEPT !.ret = StrResult("chat", <<chat_apology, o.ret.exc>>)]
              ELSE o
            : o \in chat_body(user_input)}

\* the dict detailed_chat builds from the answer of the internal generator
InternalDict(user_input, response) ==
    [Blank EXCEPT
       !.op = "detailed_chat", !.kind = "dict",
       !.keys = {"query", "response", "generation_time", "model_info",
                 "response_length", "in_scope", "conversation_count",
                 "unique_response"},
       !.info_keys = {"mode", "source", "version"},
       !.query = user_input, !.response = response,
       !.mode = "intelligent_dynamic_generation",
       !.response_length = Len(response),
       !.in_scope = TRUE,
       !.conversation_count = conversation_count]

\* the dict the handler of detailed_chat returns
DetailedErrorDict(user_input, exc) ==
    [Blank EXCEPT
       !.op = "detailed_chat", !.kind = "dict",
       !.keys = {"error", "response", "query", "generation_time", "model_info"},
       !.info_keys = {"mode"},
       !.error = TRUE, !.response = <<detailed_apology, exc>>,
       !.query = user_input, !.mode = "error_handling"]

\* the body of the try block of detailed_chat
detailed_chat_body(user_input) ==
    UNION {
      IF e.ret.kind = "dict" /\ Usable(e.ret.response)
        THEN LET ret == [e.ret EXCEPT !.op = "detailed_chat",
                                      !.keys = @ \cup {"backup_available"}]
             IN  {[L |-> [e.L EXCEPT !.clock = @ + 1],
                   hist |-> Append(chat_history,
                                   DetailedRecord(user_input, ret, e.L.clock)),
                   ret |-> ret]}
        ELSE {IF g.kind = "raise"
                THEN [L |-> Seeded(e.L), hist |-> chat_history,
                      ret |-> Raised("detailed_chat", g.exc)]
                ELSE LET ret == InternalDict(user_input, g.text)
                     IN  [L |-> [Seeded(e.L) EXCEPT !.clock = @ + 1],
                          hist |-> Append(chat_history,
                                          DetailedRecord(user_input, ret, e.L.clock)),
                          ret |-> ret]
              : g \in intelligent_generate(user_input)}
      : e \in external_guarded(user_input) }

\* DefenseCooperationChatbot.detailed_chat
detailed_chat(user_input) ==
    IF ~is_initialized
      THEN {[L |-> LlamaState, hist |-> chat_history,
             ret |-> [Blank EXCEPT !.op = "detailed_chat", !.kind = "dict",
                                   !.keys = {"error", "response"}, !.error = TRUE,
                                   !.response = not_initialized_text]]}
      ELSE {IF o.ret.kind = "raise"
              THEN [o EXCEPT !.ret = DetailedErrorDict(user_input, o.ret.exc)]
              ELSE o
            : o \in detailed_chat_body(user_input)}

\* DefenseCooperationChatbot.chat(user_input); result keeps the argument in
\* its query field next to what the call returned
Chat(user_input) ==
    /\ calls < MaxCalls
    /\ calls' = calls + 1
    /\ conversation_count' = IF is_initialized THEN conversation_count + 1
                             ELSE conversation_count
    /\ \E o \in chat(user_input) :
          /\ SetLlama(o.L)
          /\ chat_history' = o.hist
          /\ result' = [o.ret EXCEPT !.query = user_input]
    /\ UNCHANGED <<is_initialized, llama_system, other, thread_vars, bot_vars>>

\* DefenseCooperationChatbot.detailed_chat(user_input)
DetailedChat(user_input) ==
    /\ calls < MaxCalls
    /\ calls' = calls + 1
    /\ \E o \in detailed_chat(user_input) :
          /\ SetLlama(o.L)
          /\ chat_history' = o.hist
          /\ result' = [o.ret EXCEPT !.query = user_input]
    /\ UNCHANGED <<is_initialized, llama_system, conversation_count, other, thread_vars,
                   bot_vars>>

\* ------------------------------------------------ front-end specification
Init ==
    /\ FreshChatbot
    /\ FreshLlama
    /\ FreshProcess
    /\ prompt_engineer = "none"
    /\ clock = 1
    /\ calls = 0
    /\ result = Blank

\* the arguments chat and detailed_chat are called with
ChatInputs == {QIndia, QWeather, QEmpty, None}

Next ==
    \/ Initialize
    \/ \E q \in ChatInputs : Chat(q)
    \/ \E q \in ChatInputs : DetailedChat(q)

Spec == Init /\ [][Next]_vars


\* ------------------------------------------------ two-session specification
\* DefenseCooperationChatbot.reset_conversation
ResetConversation ==
    /\ calls < MaxCalls
    /\ conversation_count' = 0
    /\ chat_history' = <<>>
    /\ calls' = calls + 1
    /\ result' = [Blank EXCEPT !.op = "reset_conversation"]
    /\ UNCHANGED <<is_initialized, llama_system, llama_vars, clock, random_state,
                   other, thread_vars, bot_vars>>

\* the second object as generate_response works on it: its own fields, the
\* generator state and the clock of the process
OtherState ==
    [f \in DOMAIN other \cup {"random_state", "clock"} |->
        IF f = "random_state" THEN random_state
        ELSE IF f = "clock" THEN clock
        ELSE other[f]]

\* generate_response(user_query) on the second DefenseCooperationLlama
OtherGenerateResponse(user_query) ==
    /\ calls < MaxCalls
    /\ \E o \in generate_response(OtherState, user_query) :
          /\ other' = [f \in DOMAIN other |-> o.L[f]]
          /\ random_state' = o.L.random_state
          /\ clock' = o.L.clock
          /\ result' = [o.ret EXCEPT !.op = "other.generate_response"]
    /\ calls' = calls + 1
    /\ UNCHANGED <<chatbot_vars, llama_vars, bot_vars, thread_vars>>

\* two sessions of one process: chatbot A after initialize() without an
\* external system, and the llama object B
InitTwo ==
    /\ is_initialized = TRUE
    /\ conversation_count = 0
    /\ chat_history = <<>>
    /\ FreshLlama
    /\ FreshProcess
    /\ llama_system = "none"
    /\ prompt_engineer = "none"
    /\ clock = 1
    /\ calls = 0
    /\ result = Blank

NextTwo ==
    \/ Chat(QWeather)
    \/ DetailedChat(QEmpty)
    \/ ResetConversation
    \/ OtherGenerateResponse(QAfrica)

SpecTwo == InitTwo /\ [][NextTwo]_vars

\* ---------------------------------------------------- session specification
\* DefenseCooperationChatbot.get_system_status: the entries that vary
GetSystemStatus ==
    /\ calls < MaxCalls
    /\ calls' = calls + 1
    /\ result' = [Blank EXCEPT
                    !.op = "get_system_status", !.kind = "dict",
                    !.keys = {"dynamic_response_mode", "external_model_loaded",
                              "knowledge_base_loaded", "prompt_system_loaded",
                              "response_generator", "system_initialized",
                              "conversation_count", "response_history_size",
                              "capabilities"},
                    !.conversation_count = conversation_count,
                    !.response_length = Len(chat_history)]
    /\ UNCHANGED <<chatbot_vars, llama_vars, clock, random_state, other,
                   thread_vars, bot_vars>>

\* one session on a chatbot after initialize(): the external system was
\* built with the prompt engineer and runs in dummy mode
InitSession ==
    /\ is_initialized = TRUE
    /\ llama_system = "llama"
    /\ conversation_count = 0
    /\ chat_history = <<>>
    /\ model = "dummy"
    /\ prompt_engineer = "engineer"
    /\ response_history = <<>>
    /\ rejected_responses = <<>>
    /\ used_templates = <<>>
    /\ conversation_history = <<>>
    /\ drew_from = "none"
    /\ final_accepts = {}
    /\ inserted = <<>>
    /\ FreshProcess
    /\ clock = 1
    /\ calls = 0
    /\ result = Blank

\* the requests of the session
SessionInputs == {QAfrica}

NextSession ==
    \/ \E q \in SessionInputs : Chat(q)
    \/ \E q \in SessionInputs : DetailedChat(q)
    \/ ResetConversation
    \/ GetSystemStatus

SpecSession == InitSession /\ [][NextSession]_vars

\* ------------------------------------------------- cached-bot specification
\* number of operations of one run of the cached-bot specification
MaxBotCalls == 3

\* "UAE 투자 규모" and the same question typed as " uae 투자 규모 "
QUae == <<"UAE", "tuja", "gyumo">>

QUaePadded == <<" ", "uae", "tuja", "gyumo", " ">>

\* ImprovedDefenseBot.fallback_responses
fallback_responses ==
    [indo |-> <<"fallback: Korea-India strategy", "core analysis", "BrahMos">>,
     UAE |-> <<"fallback: UAE-Korea strategy", "core analysis", "offset">>,
     brazil |-> <<"fallback: Korea-Brazil aerospace", "core analysis", "Embraer">>,
     default |-> <<"fallback: non-NATO strategy", "core analysis", "partners">>]

\* ImprovedDefenseBot._generate_fallback_response
_generate_fallback_response(user_input) ==
    LET input_lower == Lower(user_input)
    IN  IF Contains(input_lower, <<"indo">>)
           /\ (Contains(input_lower, <<"misail">>)
               \/ Contains(input_lower, <<"hyeopryeok">>))
          THEN fallback_responses.indo
        ELSE IF Contains(input_lower, <<"uae">>) \/ Contains(input_lower, <<"arab">>)
                \/ Contains(input_lower, <<"emirate">>)
          THEN fallback_responses.UAE
        ELSE IF Contains(input_lower, <<"brazil">>)
                /\ (Contains(input_lower, <<"hanggong">>)
                    \/ Contains(input_lower, <<"embraer">>))
          THEN fallback_responses.brazil
        ELSE fallback_responses.default

\* ImprovedDefenseBot._generate_safe_response: the notice quotes the input
_generate_safe_response(user_input) ==
    <<"assistant: a problem occurred while handling the question">>
      \o (IF user_input = None THEN <<"None">> ELSE user_input)
      \o <<"recommended question forms", "system state: basic mode">>

\* cache_key = user_input.lower().strip()
cache_key_as_typed(user_input) == user_input

cache_key(user_input) == Strip(Lower(user_input))

\* the cache with one more entry: self.response_cache[cache_key] = response
Stored(cache, key, response) ==
    [k \in DOMAIN cache \cup {key} |-> IF k = key THEN response ELSE cache[k]]

\* what get_response returns, with the line it logs in mode: "cache",
\* "chatbot", "fallback" or "safe"
BotAnswer(text, log) ==
    [Blank EXCEPT !.op = "get_response", !.kind = "str", !.text = text, !.mode = log]

\* ImprovedDefenseBot.get_response: (chatbot state, history, cache, answer).
\* None.lower() raises into the outer handler, which answers with the safe
\* response and stores nothing
get_response(user_input) ==
    IF user_input = None
      THEN {[L |-> LlamaState, hist |-> chat_history, cache |-> response_cache,
             ret |-> BotAnswer(_generate_safe_response(user_input), "safe")]}
    ELSE IF cache_key(user_input) \in DOMAIN response_cache
      THEN {[L |-> LlamaState, hist |-> chat_history, cache |-> response_cache,
             ret |-> BotAnswer(response_cache[cache_key(user_input)], "cache")]}
    ELSE IF bot_initialized /\ is_initialized
      THEN {LET response == o.ret.response
                valid == /\ o.ret.kind = "dict"
                         /\ "response" \in o.ret.keys
                         /\ CharLen(Strip(response)) > 50
                answer == IF valid THEN response
                          ELSE _generate_fallback_response(user_input)
            IN  [L |-> o.L, hist |-> o.hist,
                 cache |-> Stored(response_cache, cache_key(user_input), answer),
                 ret |-> BotAnswer(answer, IF valid THEN "chatbot" ELSE "fallback")]
            : o \in detailed_chat(user_input)}
    ELSE LET answer == _generate_fallback_response(user_input)
         IN  {[L |-> LlamaState, hist |-> chat_history,
               cache |-> Stored(response_cache, cache_key(user_input), answer),
               ret |-> BotAnswer(answer, "fallback")]}

\* ImprovedDefenseBot.initialize where the environment lets chatbot.initialize
\* end with one of `systems`: a new chatbot, initialized, or the failure of
\* the imports before the chatbot is built
BotInitialize(systems) ==
    /\ calls < MaxBotCalls
    /\ calls' = calls + 1
    /\ result' = [Blank EXCEPT !.op = "bot.initialize", !.kind = "bool"]
    /\ \/ /\ bot_initialized' = TRUE
          /\ is_initialized' = TRUE
          /\ conversation_count' = 0
          /\ chat_history' = <<>>
          /\ llama_system' \in systems
          /\ UNCHANGED <<llama_vars>>
       \/ /\ bot_initialized' = FALSE
          /\ UNCHANGED <<chatbot_vars, llama_vars>>
    /\ UNCHANGED <<response_cache, clock, random_state, other, thread_vars>>

\* ImprovedDefenseBot.get_response(user_input)
GetResponse(user_input) ==
    /\ calls < MaxBotCalls
    /\ calls' = calls + 1
    /\ \E o \in get_response(user_input) :
          /\ SetLlama(o.L)
          /\ chat_history' = o.hist
          /\ response_cache' = o.cache
          /\ result' = [o.ret EXCEPT !.query = user_input]
    /\ UNCHANGED <<is_initialized, llama_system, conversation_count, other, thread_vars,
                   bot_initialized>>

\* the questions typed into the bot
BotInputs == {QUae, QUaePadded, QWeather, None}

InitBot ==
    /\ FreshChatbot
    /\ FreshLlama
    /\ FreshProcess
    /\ prompt_engineer = "none"
    /\ clock = 1
    /\ calls = 0
    /\ result = Blank

NextBot ==
    \/ BotInitialize({"none", "stub"})
    \/ \E q \in BotInputs : GetResponse(q)

SpecBot == InitBot /\ [][NextBot]_vars

\* --------------------------------------------- pure-function specification
\* the words the queries of this specification are made of: 인도, 인도네시아,
\* UAE, uae, 브라질, 미사일, 투자, 항공, 협력, AI, 오늘 (no keyword), 윤리,
\* 미래, 기술, 개발, 중동, 아프리카 and 사이버
Words ==
    {<<"indo">>, <<"indo", "nesia">>, <<"UAE">>, <<"uae">>, <<"brazil">>,
     <<"misail">>, <<"tuja">>, <<"hanggong">>, <<"hyeopryeok">>, <<"AI">>,
     <<"oneul">>, <<"yulli">>, <<"mirae">>, <<"gisul">>, <<"gaebal">>,
     <<"jungdong">>, <<"africa">>, <<"cyber">>}

\* the query strings of at most n words
RECURSIVE WordQueries(_)
WordQueries(n) ==
    IF n = 0 THEN {<<>>}
    ELSE LET shorter == WordQueries(n - 1)
         IN  shorter \cup {q \o w : q \in shorter, w \in Words}

\* EnhancedResponseGenerator._classify_query_for_template(query), called
\* directly; the returned category is the text of the result
ClassifyQuery(query) ==
    /\ result.op = "input" /\ result.query = query
    /\ result' = [Blank EXCEPT !.op = "_classify_query_for_template",
                               !.kind = "str", !.query = query,
                               !.text = <<_classify_query_for_template(query)>>]
    /\ UNCHANGED <<chatbot_vars, llama_vars, clock, calls, random_state, other, thread_vars, bot_vars>>

\* LlamaPromptEngineer.is_defense_related(query), called directly (check_scope);
\* the returned bool is the in_scope field of the result
IsDefenseRelated(query) ==
    /\ result.op = "input" /\ result.query = query
    /\ result' = [Blank EXCEPT !.op = "is_defense_related", !.kind = "bool",
                               !.query = query,
                               !.in_scope = is_defense_related(query)]
    /\ UNCHANGED <<chatbot_vars, llama_vars, clock, calls, random_state, other, thread_vars, bot_vars>>

\* LlamaPromptEngineer.find_pdf_answer(query), called directly: the returned
\* answer is the text of the result, None is kind "none"
FindPdfAnswer(query) ==
    /\ result.op = "input" /\ result.query = query
    /\ LET answer == find_pdf_answer(query)
       IN  result' = [Blank EXCEPT !.op = "find_pdf_answer",
                                   !.kind = IF answer = None THEN "none" ELSE "str",
                                   !.query = query, !.text = answer]
    /\ UNCHANGED <<chatbot_vars, llama_vars, clock, calls, random_state, other, thread_vars, bot_vars>>

\* TrueIntelligentGenerator._analyze_query(query), called directly: the text
\* of the result is the pair of category and sub-category
AnalyzeQuery(query) ==
    /\ result.op = "input" /\ result.query = query
    /\ LET topic == _analyze_query(query)
       IN  result' = [Blank EXCEPT !.op = "_analyze_query", !.kind = "dict",
                                   !.keys = {"category", "subcategory", "query",
                                             "keywords"},
                                   !.query = query,
                                   !.text = <<topic.category, topic.subcategory>>]
    /\ UNCHANGED <<chatbot_vars, llama_vars, clock, calls, random_state, other, thread_vars, bot_vars>>

NextPure ==
    \/ ClassifyQuery(result.query)
    \/ IsDefenseRelated(result.query)
    \/ FindPdfAnswer(result.query)
    \/ AnalyzeQuery(result.query)

\* the query the function is applied to is drawn first
InitPure ==
    /\ FreshChatbot
    /\ FreshLlama
    /\ FreshProcess
    /\ prompt_engineer = "engineer"
    /\ clock = 1
    /\ calls = 0
    /\ \E q \in WordQueries(MaxWords) :
          result = [Blank EXCEPT !.op = "input", !.query = q]

SpecPure == InitPure /\ [][NextPure]_vars

\* ============================================================== properties
\* a step of DefenseCooperationLlama.generate_response that returned its
\* dict without entering the exception handler
GenerateCompleted ==
    /\ calls' = calls + 1
    /\ result'.op = "generate_response"
    /\ result'.kind = "dict"
    /\ ~result'.error

\* C1: between calls response_history never holds more than max_history
\* records and is exactly the trailing max_history records of everything
\* inserted, in insertion order: each insertion beyond the bound evicts the
\* single oldest record, so after max_history + 1 insertions the first
\* record is gone and the newest is present.
C1_BoundedFifoHistory ==
    /\ Len(response_history) <= max_history
    /\ response_history = LastN(inserted, max_history)

C1_Witness ==
    /\ Len(inserted) = max_history + 1
    /\ Len(response_history) = max_history
    /\ response_history[max_history] = inserted[max_history + 1]
    /\ \A i \in 1..Len(response_history) : response_history[i] # inserted[1]

\* C2: every generate_response call that completes without an internal
\* exception appends exactly one record to response_history, that record
\* holds the query and the returned response, and the candidates rejected on
\* the way are appended to rejected_responses only.
C2_OneRecordPerCall ==
    [][GenerateCompleted =>
         LET h == response_history'
             n == Len(h)
         IN  /\ n = Min(Len(response_history) + 1, max_history)
             /\ h[n].response = result'.response
             /\ h[n].query = result'.query
             /\ SubSeq(h, 1, n - 1) = LastN(response_history, n - 1)
             /\ Len(rejected_responses') >= Len(rejected_responses)
             /\ SubSeq(rejected_responses', 1, Len(rejected_responses))
                  = rejected_responses]_vars

C2_Witness ==
    /\ result.op = "generate_response" /\ result.kind = "dict" /\ ~result.error
    /\ result.attempts >= 2
    /\ Len(rejected_responses) >= 1
    /\ Len(response_history) = 2
    /\ response_history[2].response = result.response

\* C3: a completed generate_response call used between 1 and max_attempts
\* candidates and accepted the last of them; it rejected attempts - 1
\* candidates, numbered in order, each too similar to the history; a
\* candidate accepted before the last attempt is not too similar to the
\* history, and attempts equals max_attempts exactly when two candidates
\* were rejected.
C3_RetryLoop ==
    [][GenerateCompleted =>
         LET a == result'.attempts
             old == Len(rejected_responses)
             new == rejected_responses'
         IN  /\ a \in 1..max_attempts
             /\ Len(new) = old + a - 1
             /\ \A k \in 1..(a - 1) :
                   /\ new[old + k].attempt = k
                   /\ FracGT(new[old + k].similarity, similarity_threshold)
                   /\ check_similarity(response_history,
                                       new[old + k].response).is_similar
             /\ a < max_attempts =>
                   ~check_similarity(response_history, result'.response).is_similar
             /\ (a = max_attempts) <=> (Len(new) = old + 2)]_vars

C3_Witness ==
    /\ result.op = "generate_response" /\ result.kind = "dict" /\ ~result.error
    /\ result.attempts = max_attempts
    /\ Len(rejected_responses) = 2
    /\ Len(response_history) = 2
    /\ check_similarity(SubSeq(response_history, 1, 1),
                        response_history[2].response).is_similar

ReturnedText == IF result.kind = "str" THEN result.text ELSE result.response

\* C5: chat returns a str and detailed_chat returns a dict holding
\* 'response', for every input (empty, a question, None) and in every state
\* of the chatbot; no exception leaves either call.
C5_ChatAlwaysAnswers ==
    /\ result.op = "chat" => result.kind = "str"
    /\ result.op = "detailed_chat" =>
          result.kind = "dict" /\ "response" \in result.keys

C5_Witness ==
    /\ is_initialized
    /\ result.op = "chat"
    /\ result.query = None
    /\ result.kind = "str"
    /\ Len(result.text) > 0

\* C6: the text chat, detailed_chat and generate_response hand back after an
\* unexpected exception holds no message of an internal exception.
C6_NoExceptionMessage ==
    (result.op \in {"chat", "detailed_chat", "generate_response"}
       /\ result.kind \in {"str", "dict"})
      => \A m \in ExceptionMessages : ~Contains(ReturnedText, <<m>>)

\* C7: when the external system fails on a string query (here: it was built
\* without a prompt engineer, so its generate_response ends in its handler),
\* chat returns a text without the error notice and detailed_chat a dict
\* without the error flag.
C7_ExternalFailureHidden ==
    (is_initialized /\ llama_system = "llama" /\ prompt_engineer = "none"
       /\ result.op \in {"chat", "detailed_chat"} /\ result.query # None)
      => /\ ~Contains(ReturnedText, <<enhanced_error_notice>>)
         /\ ~result.error

\* C8: when the query matches an entry of the registered question/answer
\* table, the response generate_response returns is the registered answer,
\* verbatim.
C8_RegisteredAnswerVerbatim ==
    (result.op = "generate_response" /\ result.kind = "dict" /\ ~result.error
       /\ find_pdf_answer(result.query) # None)
      => result.response = find_pdf_answer(result.query)

\* C9: for a query without any defense keyword detailed_chat reports
\* in_scope false and its response is the labelled generic answer.
C9_OutOfScopeFlagged ==
    (is_initialized /\ result.op = "detailed_chat" /\ result.query # None
       /\ ~is_defense_related(result.query) /\ ~result.error)
      => /\ "in_scope" \in result.keys
         /\ ~result.in_scope
         /\ Contains(result.response, <<specialty_guide>>)

\* C10: the query QIndia is classified into the India/missile bucket and the
\* response generated for it always holds "BrahMos" or "현무".
C10_IndiaMissileMarkers ==
    (result.op = "generate_response" /\ result.kind = "dict" /\ ~result.error
       /\ result.mode = "enhanced_dummy" /\ result.query = QIndia)
      => /\ _classify_query_for_template(result.query) = "indo_misail"
         /\ \/ Contains(result.response, <<"BrahMos">>)
            \/ Contains(result.response, <<"hyunmoo">>)

\* three requests with one query were served in this session and the
\* category of the query has at least two templates
ThreeSameRequests ==
    /\ calls = 3
    /\ Len(inserted) = 3
    /\ \A i \in 1..3 : inserted[i].query = result.query
    /\ Len(response_templates[_classify_query_for_template(result.query)]) >= 2

\* C11 (as stated): after the same query was issued three times in a row in
\* one session, at least one candidate was rejected as too similar.
C11_SameQueryRejected ==
    ThreeSameRequests => Len(rejected_responses) >= 1

\* C11 (amended): after the same query was issued three times in a row in
\* one session, either at least one candidate was rejected as too similar,
\* or the three returned responses are pairwise not too similar (they come
\* from three different templates of the category).
C11_RejectedOrDistinct ==
    ThreeSameRequests =>
      \/ Len(rejected_responses) >= 1
      \/ \A i, j \in 1..3 :
            i < j => ~FracGT(Ratio(inserted[j].response, inserted[i].response),
                             similarity_threshold)

C11_Witness ==
    /\ ThreeSameRequests
    /\ Len(rejected_responses) >= 1
    /\ rejected_responses[1].query = result.query
    /\ \E i \in 1..3 :
          FracGT(Ratio(rejected_responses[1].response, inserted[i].response),
                 similarity_threshold)

\* the country / domain-keyword pairs of the categories the classifier names
\* after a country: 인도 + 미사일, UAE + 투자, 브라질 + 항공
CountryPairs ==
    {[country |-> <<"indo">>, domain |-> <<"misail">>, category |-> "indo_misail"],
     [country |-> <<"uae">>, domain |-> <<"tuja">>, category |-> "UAE_tuja"],
     [country |-> <<"brazil">>, domain |-> <<"hanggong">>,
      category |-> "brazil_hanggong"]}

HasPair(query, p) ==
    Contains(Lower(query), p.country) /\ Contains(Lower(query), p.domain)

\* C12: a query that holds the country name and the domain keyword of one
\* of the pairs (and not both words of another pair) is classified into the
\* category of that country, whatever else it holds.
C12_CountryPairDecides ==
    result.op = "_classify_query_for_template" =>
      \A p \in CountryPairs :
         (HasPair(result.query, p)
            /\ \A o \in CountryPairs \ {p} : ~HasPair(result.query, o))
           => result.text = <<p.category>>

\* C13: is_defense_related(q) is true exactly when some keyword of
\* defense_keywords occurs in q, letter case ignored on both sides; it is
\* false for the empty string.
C13_ScopeIffKeyword ==
    result.op = "is_defense_related" =>
      /\ result.in_scope <=>
           \E k \in 1..Len(defense_keywords) :
              Contains(Lower(result.query), Lower(defense_keywords[k]))
      /\ result.query = <<>> => ~result.in_scope

\* the template a response was made from: the first token of a template is
\* its own and survives _diversify_headers
TemplateOf(response) == response[1]

\* the templates of the category of a query
CategoryTemplates(query) ==
    LET templates == response_templates[_classify_query_for_template(query)]
    IN  {TemplateOf(templates[i]) : i \in 1..Len(templates)}

\* C14: within one session a template is returned a second time only after
\* every template of its category has been returned.
C14_NoEarlyReuse ==
    \A j \in 1..Len(inserted) :
       LET earlier == {TemplateOf(inserted[i].response) : i \in 1..(j - 1)}
       IN  TemplateOf(inserted[j].response) \in earlier
             => CategoryTemplates(inserted[j].query) \subseteq earlier

\* C15: every result of detailed_chat on an initialized chatbot carries the
\* response text, the generation time, a mode tag under model_info, the
\* in_scope flag and the diversity metrics.
C15_ResultFields ==
    (is_initialized /\ result.op = "detailed_chat") =>
      /\ {"response", "generation_time", "model_info", "in_scope",
          "diversity_info"} \subseteq result.keys
      /\ "mode" \in result.info_keys

\* C16: the metrics get_diversity_metrics reports (here: the snapshot in the
\* dict of generate_response) always hold the four fields, total_responses
\* being the length of the history and rejected_count the number of
\* rejected candidates.
C16_FourMetricFields ==
    (result.op = "generate_response" /\ result.kind = "dict" /\ ~result.error) =>
      /\ result.diversity_info.keys =
           {"diversity_score", "avg_similarity", "total_responses", "rejected_count"}
      /\ result.diversity_info.total_responses = Len(response_history)
      /\ result.diversity_info.rejected_count = Len(rejected_responses)

\* C17: two sessions of one process share no state that influences their
\* answers: the random choices of one object never read generator state
\* that the other session wrote.
C17_SessionsIndependent ==
    /\ other.drew_from # "A"
    /\ drew_from # "B"


\* C18: ImprovedDefenseBot.get_response keeps what it answered on the normal
\* path under the lower-cased, trimmed input: a call whose normalised input
\* is in response_cache returns the cached text, logs the cache line, and
\* leaves chatbot and cache as they were (neither the chatbot nor the
\* fallback selector runs); a call on the normal path with a new normalised
\* input stores exactly what it returns under it; no entry ever changes
C18_CachedAnswerReturned ==
    [][ /\ \A k \in DOMAIN response_cache :
              k \in DOMAIN response_cache' /\ response_cache'[k] = response_cache[k]
        /\ (result'.op = "get_response" /\ calls' = calls + 1
            /\ result'.query # None)
           => LET key == Strip(Lower(result'.query))
              IN  IF key \in DOMAIN response_cache
                    THEN /\ result'.text = response_cache[key]
                         /\ result'.mode = "cache"
                         /\ UNCHANGED <<chatbot_vars, llama_vars, clock,
                                        random_state, response_cache>>
                    ELSE /\ result'.mode \in {"chatbot", "fallback"}
                         /\ response_cache' =
                               Stored(response_cache, key, result'.text) ]_vars

\* "UAE 투자 규모" was answered by the chatbot and " uae 투자 규모 " is then
\* served from the cache
C18_Witness ==
    /\ result.op = "get_response"
    /\ result.mode = "cache"
    /\ result.query = QUaePadded
    /\ \E i \in 1..Len(chat_history) : chat_history[i].query = QUae
    /\ result.text = response_cache[<<"uae", "tuja", "gyumo">>]

\* C19: with the prompt engineer built and the model forced to dummy mode,
\* generate_response answers every query string, after any number of
\* requests, with a dict that has no 'error' entry, whose mode is
\* 'enhanced_dummy', whose response is not empty and whose response_length
\* is the length of the response
C19_DummyModeAnswers ==
    result.op = "generate_response"
    => /\ result.kind = "dict"
       /\ "error" \notin result.keys
       /\ {"response", "model_info", "response_length"} \subseteq result.keys
       /\ "mode" \in result.info_keys
       /\ result.mode = "enhanced_dummy"
       /\ Len(result.response) > 0
       /\ result.response_length = Len(result.response)

\* a second request that was answered after a rejected candidate
C19_Witness ==
    /\ result.op = "generate_response"
    /\ model = "dummy" /\ prompt_engineer = "engineer"
    /\ Len(used_templates) = 2
    /\ result.attempts > 1
    /\ result.mode = "enhanced_dummy"
    /\ result.response_length = Len(result.response)

\* C20: after N >= 1 successful generate_response calls,
\* get_performance_stats returns the statistics record, with model_info and
\* total_conversations = N, and not the 'No conversation history available'
\* message
C20_StatsCountRequests ==
    (result.op = "get_performance_stats" /\ Len(used_templates) >= 1)
    => /\ "message" \notin result.keys
       /\ {"total_conversations", "model_info"} \subseteq result.keys
       /\ result.total_conversations = Len(used_templates)

\* the output of the external system is degenerate: trimmed length below 50
\* characters, or the placeholder marker in it
Degenerate(response) ==
    CharLen(Strip(response)) < 50 \/ Contains(response, <<"Template">>)

\* C21: chat and detailed_chat hand back the output of the external system
\* if and only if it is not degenerate (in particular an output of exactly
\* 50 characters without the marker is used); otherwise they hand back the
\* answer of the internal generator.
C21_ExternalUsedIffNotDegenerate ==
    [][ (result'.op \in {"chat", "detailed_chat"} /\ calls' = calls + 1
         /\ Len(inserted') > Len(inserted))
        => LET external == inserted'[Len(inserted')].response
           IN  (ReturnedText' = external) <=> ~Degenerate(external) ]_vars

\* the largest of the similarity ratios between a text and the records of a
\* window, 0.0 for an empty window
MaxRatio(window, text) ==
    LET ratios == {Ratio(text, window[i].response) : i \in 1..Len(window)}
    IN  IF ratios = {} THEN Zero
        ELSE CHOOSE x \in ratios : \A y \in ratios : ~FracGT(y, x)

\* C22: the similarity check_similarity returns is the maximum of the ratios
\* between the candidate and the last 5 history records (0.0 for an empty
\* history), whether or not the candidate is reported too similar, and the
\* flag is true exactly when that maximum is greater than the threshold.
C22_SimilarityIsMaximum ==
    result.op = "check_similarity"
    => LET best == MaxRatio(LastN(response_history, recent_window), result.response)
       IN  /\ ~FracGT(best, result.similarity) /\ ~FracGT(result.similarity, best)
           /\ result.is_similar <=> FracGT(best, similarity_threshold)

\* the number of keywords of the i-th table entry that occur in the query,
\* letter case aside
KeywordHits(query, i) ==
    LET keywords == pdf_qa_database[i].keywords
    IN  Cardinality({k \in 1..Len(keywords) :
                        Contains(Lower(query), Lower(keywords[k]))})

\* the entries whose share of keywords hit is the best of the table
BestEntries(query) ==
    {i \in 1..Len(pdf_qa_database) :
        \A j \in 1..Len(pdf_qa_database) :
            KeywordHits(query, j) * Len(pdf_qa_database[i].keywords)
              <= KeywordHits(query, i) * Len(pdf_qa_database[j].keywords)}

\* C23: find_pdf_answer returns the answer of the entry with the best keyword
\* overlap when that entry has at least half of its keywords in the query,
\* and nothing otherwise, whatever the order of the entries; every keyword,
\* "UAE" and "BrahMos" included, counts when it occurs in the query.
C23_BestEntryAnswers ==
    result.op = "find_pdf_answer"
    => IF \E i \in BestEntries(result.query) :
             2 * KeywordHits(result.query, i) >= Len(pdf_qa_database[i].keywords)
         THEN \E i \in BestEntries(result.query) :
                 result.text = pdf_qa_database[i].response
         ELSE result.kind = "none"

\* some keyword of some set of a table occurs in the lower-cased query
RegionHit(query) ==
    \E i \in 1..Len(region_keywords) :
        \E k \in 1..Len(region_keywords[i].keywords) :
            Contains(Lower(query), region_keywords[i].keywords[k])

\* the technology sets with at least 2 keywords in the lower-cased query
TechSets(query) ==
    {i \in 1..Len(tech_keywords) :
        Cardinality({k \in 1..Len(tech_keywords[i].keywords) :
                        Contains(Lower(query), tech_keywords[i].keywords[k])}) >= 2}

CooperationHit(query) ==
    \E k \in 1..Len(cooperation_keywords) :
        Contains(Lower(query), cooperation_keywords[k])

\* C24: _analyze_query answers every query string with the fixed priority
\* regional (any region keyword), then technology (some technology set with
\* at least 2 hits, the first such set naming the sub-category), then
\* cooperation (a cooperation keyword), then general; the empty string is
\* general.
C24_AnalyzePriority ==
    result.op = "_analyze_query"
    => LET q == result.query
           category == result.text[1]
           subcategory == result.text[2]
       IN  /\ result.kind = "dict"
           /\ category = "regional" <=> RegionHit(q)
           /\ category = "technology" <=> (~RegionHit(q) /\ TechSets(q) # {})
           /\ category = "technology" =>
                 \E i \in TechSets(q) :
                     /\ subcategory = tech_keywords[i].tech
                     /\ \A j \in TechSets(q) : i <= j
           /\ category = "cooperation" <=>
                 (~RegionHit(q) /\ TechSets(q) = {} /\ CooperationHit(q))
           /\ category = "general" <=>
                 (~RegionHit(q) /\ TechSets(q) = {} /\ ~CooperationHit(q))
           /\ q = <<>> => category = "general"

\* "AI 윤리 미래": both AI sets have two hits and the first one, AI_윤리,
\* names the sub-category
C24_Witness ==
    /\ result.op = "_analyze_query"
    /\ result.query = <<"AI", "yulli", "mirae">>
    /\ result.text = <<"technology", "AI_ethics">>

\* C25: with two callers inside generate_response at once, response_history
\* never holds more than max_history records, is the trailing part of what was
\* inserted (each overflowing insertion evicted the oldest record), and the
\* callers' records were inserted in the order in which they were accepted.
C25_ConcurrentBoundedFifo ==
    /\ Len(response_history) <= max_history
    /\ response_history = LastN(inserted, max_history)
    /\ \A i \in (MaxConcFill + 1)..Len(inserted) :
          inserted[i].response = accepted[i - MaxConcFill].response

\* C26: with two callers inside generate_response at once, the similarity
\* check and the insertion that follows act as one step: no two candidates
\* accepted on non-final attempts are more similar than the threshold, and
\* every accepted identifier is in used_templates once its caller returned.
C26_CheckAndInsertAtomic ==
    /\ \A i, j \in 1..Len(accepted) :
          (i < j /\ accepted[i].attempt < max_attempts - 1
                 /\ accepted[j].attempt < max_attempts - 1)
          => ~FracGT(Ratio(accepted[i].response, accepted[j].response),
                     similarity_threshold)
    /\ (\A t \in Callers : threads[t].pc = "done")
       => Len(used_templates) = Len(accepted)

\* C27: reset_conversation returns the whole session to its initial state:
\* conversation_count is 0, the chatbot's response_history is empty, and the
\* external system keeps no diversity history, rejected log or used_templates
\* of the requests before the reset.
C27_ResetClearsSession ==
    result.op = "reset_conversation"
    => /\ conversation_count = 0
       /\ chat_history = <<>>
       /\ response_history = <<>>
       /\ rejected_responses = <<>>
       /\ used_templates = <<>>

\* C28: conversation_count, as get_system_status and the detailed results
\* report it, is the number of chat and detailed_chat requests handled since
\* the last reset, and response_history never holds more records than that.
C28_CountIsRequestsSinceReset ==
    [][ /\ (result'.op \in {"chat", "detailed_chat"} /\ calls' = calls + 1)
           => conversation_count' = conversation_count + 1
        /\ (result'.op = "reset_conversation" /\ calls' = calls + 1)
           => conversation_count' = 0
        /\ (result'.op = "get_system_status" /\ calls' = calls + 1)
           => /\ result'.conversation_count = conversation_count
              /\ conversation_count' = conversation_count
        /\ Len(chat_history') <= conversation_count' ]_vars

\* the categories _classify_query_for_template returns over the queries of
\* the pure-function specification
ReturnedCategories ==
    {_classify_query_for_template(q) : q \in WordQueries(MaxWords)}

\* C29: every category registered in the template corpus is returned by
\* _classify_query_for_template for at least one query, so each registered
\* template can be selected by get_diverse_response.
C29_EveryCategoryClassified ==
    result.op = "_classify_query_for_template"
    => /\ result.text[1] \in TemplateKeys
       /\ \A c \in TemplateKeys : c \in ReturnedCategories

\* the query names Indonesia; it names India: "인도" not followed by "네시아"
NamesIndonesia(query) == Contains(Lower(query), <<"indo", "nesia">>)

NamesIndia(query) ==
    \E i \in 1..Len(query) :
        query[i] = "indo" /\ (i = Len(query) \/ query[i + 1] # "nesia")

\* C30: a query that names Indonesia and neither India nor the UAE or Brazil,
\* with or without "협력", is classified into 동남아_협력, never into
\* 인도_미사일, and _analyze_query assigns the same query to Southeast Asia.
C30_IndonesiaIsSoutheastAsia ==
    (result.op = "_classify_query_for_template"
       /\ NamesIndonesia(result.query) /\ ~NamesIndia(result.query)
       /\ ~Contains(Lower(result.query), <<"uae">>)
       /\ ~Contains(result.query, <<"brazil">>))
    => /\ result.text = <<"dongnama_hyeopryeok">>
       /\ _analyze_query(result.query).subcategory = "dongnamasia"

=============================================================================
